---- MODULE Spec2Model ----
(***************************************************************************)
(* RTCSwitchServer: an in-memory room registry (map + sync.RWMutex) served *)
(* by three HTTP handlers, createRoomHandler, destroyRoomHandler and       *)
(* listRoomsHandler.  Every request runs in its own goroutine; a handler   *)
(* of the model is one such goroutine, and one action is one step of it.   *)
(***************************************************************************)
EXTENDS Integers, Sequences, FiniteSets, TLC

VARIABLES
    rooms,      \* the map rooms: room_id -> Room (a function on the present keys)
    writer,     \* roomsMu: the goroutine that passed Lock's entry (0: none)
    readers,    \* roomsMu: the goroutines that hold a read lock
    now,        \* time.Now().Unix()
    pc,         \* per handler: where its goroutine stands
    req,        \* per handler: the request it serves
    room,       \* per handler: createRoomHandler's local `room`
    resp,       \* per handler: what it wrote to its http.ResponseWriter
    last,       \* history: per room_id, the handler whose insert is the entry (0: none)
    prior,      \* history: per list handler, the creates answered before it began
    probe,      \* the input of the single-request specifications
    list,       \* per list handler, the slice it is building
    iter        \* per list handler, the keys its range loop has visited

vars == <<rooms, writer, readers, now, pc, req, room, resp, last, prior, probe,
          list, iter>>

----------------------------------------------------------------------------
(* Bounds of the model *)

MaxTime == 1          \* the clock runs over the seconds 0..MaxTime
MaxStrLen == 5        \* longest room_type string of the single-create runs
MaxCreateTime == 2    \* latest create_time in the stores the list runs start from

\* the goroutines that serve requests at the same time
Handlers == {1, 2}
NoHandler == 0

----------------------------------------------------------------------------
(* Types and constants of main.go *)

RTC_TRTC == "TRTC"
RTC_AGORA == "Agora"
RoomLive == "Live"
RoomAudio == "Audio"

MethodPost == "POST"
MethodGet == "GET"
MethodPut == "PUT"
Methods == {MethodPost, MethodGet, MethodPut}

StatusOK == 200
StatusBadRequest == 400
StatusNotFound == 404
StatusMethodNotAllowed == 405

JSONType == "application/json"
TextType == "text/plain; charset=utf-8"

\* Room{...}: the struct of lines 31-37
Room(id, owner, t, rt, rtc) ==
    [room_id |-> id, owner_userid |-> owner, create_time |-> t,
     room_type |-> rt, rtc_type |-> rtc]

\* the zero value of Room, what `var room Room` holds before it is built
ZeroRoom == Room("", "", 0, "", "")

----------------------------------------------------------------------------
(* Strings: a string the code inspects rune by rune is a sequence of       *)
(* one-rune strings; one it only copies or concatenates is a TLA+ string.  *)

Str_audio == <<"a", "u", "d", "i", "o">>

\* unicode.ToLower on the runes of the model's alphabet: A-Z map to a-z,
\* U+0130 (capital I with dot above) maps to U+0069, every other rune to itself
ToLowerRune(c) ==
    CASE c = "A" -> "a"
      [] c = "U" -> "u"
      [] c = "D" -> "d"
      [] c = "I" -> "i"
      [] c = "O" -> "o"
      [] c = "F" -> "f"
      [] c = "L" -> "l"
      [] c = "V" -> "v"
      [] c = "E" -> "e"
      [] c = "U+0130" -> "i"
      [] OTHER -> c

\* strings.ToLower
ToLower(s) == [k \in 1..Len(s) |-> ToLowerRune(s[k])]

\* a normalization that compares without lowering the case
NormalizeCaseSensitive(s) == IF s = Str_audio THEN RoomAudio ELSE RoomLive
\* lines 90-93: rt := RoomLive; if strings.ToLower(req.RoomType) == "audio" { rt = RoomAudio }
NormalizeRoomType(s) == IF ToLower(s) = Str_audio THEN RoomAudio ELSE RoomLive

\* a split at 5 instead of 6: 0-4 => TRTC, 5-9 => Agora
chooseRTCSplitAtFive(u) == IF u < 5 THEN RTC_TRTC ELSE RTC_AGORA
\* chooseRTC, lines 60-72, on the draw u := rand.Intn(10)
chooseRTC(u) ==
    CASE u \in {0, 1, 2, 3, 4, 5} -> RTC_TRTC
      [] u \in {6, 7, 8, 9} -> RTC_AGORA
      [] OTHER -> RTC_TRTC

\* rand.Intn(10) returns a number of [0, 10)
Draws == 0..9

\* a room id that is the userid alone
generateRoomIDNoPrefix(userid) == userid
\* generateRoomID, lines 74-76
generateRoomID(userid) == "rm_" \o userid

----------------------------------------------------------------------------
(* Inputs *)

UserIDs == {"5", "7"}
RoomIDs == {generateRoomID(u) : u \in UserIDs}
\* room_id values of destroy requests: the ids create can make and one it cannot
DestroyIDs == RoomIDs \cup {"5"}
\* the decoded bodies of the create requests of Spec: {"userid": .., "room_type": ..}
CreateBodies ==
    {[userid |-> "5", room_type |-> <<"A", "U", "D", "I", "O">>],
     [userid |-> "7", room_type |-> <<>>]}

\* the zero values of a handler's locals
NoReq == [kind |-> "none", method |-> "", valid |-> FALSE, key |-> ""]
NoResp == [status |-> 0, ctype |-> "", body |-> ""]
NoProbe == [userid |-> "", room_type |-> <<>>, draw |-> 0]

\* http.Error(w, msg, code): a plain-text error body
HttpError(msg, code) == [status |-> code, ctype |-> TextType, body |-> msg]
\* json.NewEncoder(w).Encode(v) with no Content-Type set: net/http then
\* detects the type of a JSON text as text/plain
JSONResponseNoHeader(v) == [status |-> StatusOK, ctype |-> TextType, body |-> v]
\* w.Header().Set("Content-Type", "application/json"); json.NewEncoder(w).Encode(v)
JSONResponse(v) == [status |-> StatusOK, ctype |-> JSONType, body |-> v]

----------------------------------------------------------------------------
(* roomsMu sync.RWMutex.  Lock first shuts new readers out, then waits for *)
(* the readers that are in to leave; RLock waits while a writer is in or   *)
(* waiting.                                                                *)

\* a Lock that lets a writer in while another writer is in
LockEnterNoExclusion(p) == writer' = p /\ UNCHANGED readers
\* roomsMu.Lock(), entry: one writer at a time gets past it
LockEnter(p) == writer = NoHandler /\ writer' = p /\ UNCHANGED readers
\* roomsMu.Lock(), wait: it returns once no reader holds the lock
LockReady(p) == writer = p /\ readers = {} /\ UNCHANGED <<writer, readers>>
\* roomsMu.Unlock()
Unlock(p) == writer = p /\ writer' = NoHandler /\ UNCHANGED readers
\* a read lock that does not wait for the writer
RLockNoWait(p) == readers' = readers \cup {p} /\ UNCHANGED writer
\* roomsMu.RLock()
RLock(p) == writer = NoHandler /\ readers' = readers \cup {p} /\ UNCHANGED writer
\* roomsMu.RUnlock()
RUnlock(p) == p \in readers /\ readers' = readers \ {p} /\ UNCHANGED writer

----------------------------------------------------------------------------
(* The map *)

\* a lookup that finds every key
MapHasAlways(m, id) == TRUE
\* _, ok := rooms[id]
MapHas(m, id) == id \in DOMAIN m
\* an insert that updates an existing entry but keeps its rtc_type
MapInsertMerge(m, id, r) ==
    [k \in DOMAIN m \cup {id} |->
        IF k # id THEN m[k]
        ELSE IF id \in DOMAIN m THEN [r EXCEPT !.rtc_type = m[id].rtc_type] ELSE r]
\* an insert that leaves an existing entry alone
MapInsertIfAbsent(m, id, r) ==
    [k \in DOMAIN m \cup {id} |-> IF k \in DOMAIN m THEN m[k] ELSE r]
\* an insert into a fresh map
MapInsertFresh(m, id, r) == [k \in {id} |-> r]
\* rooms[id] = r
MapInsert(m, id, r) == [k \in DOMAIN m \cup {id} |-> IF k = id THEN r ELSE m[k]]
\* a delete that empties the map
MapDeleteAll(m, id) == [k \in {} |-> m[k]]
\* delete(rooms, id)
MapDelete(m, id) == [k \in DOMAIN m \ {id} |-> m[k]]

----------------------------------------------------------------------------
(* createRoomHandler, lines 79-112 *)

\* lines 80-104: method check, decode, normalization, id, RTC draw, the room
CreateRequest(p, method, valid, userid, room_type, u) ==
    /\ pc[p] = "idle"
    /\ req' = [req EXCEPT ![p] =
          [kind |-> "create", method |-> method,
           valid |-> method = MethodPost /\ valid,
           key |-> IF method = MethodPost /\ valid THEN userid ELSE ""]]
    /\ IF method # MethodPost
       THEN /\ resp' = [resp EXCEPT ![p] = HttpError("method not allowed", StatusMethodNotAllowed)]
            /\ pc' = [pc EXCEPT ![p] = "done"]
            /\ UNCHANGED room
       ELSE IF ~valid
       THEN /\ resp' = [resp EXCEPT ![p] = HttpError("invalid request", StatusBadRequest)]
            /\ pc' = [pc EXCEPT ![p] = "done"]
            /\ UNCHANGED room
       ELSE /\ room' = [room EXCEPT ![p] =
                   Room(generateRoomID(userid), userid, now,
                        NormalizeRoomType(room_type), chooseRTC(u))]
            /\ pc' = [pc EXCEPT ![p] = "c_lock"]
            /\ UNCHANGED resp
    /\ UNCHANGED <<rooms, writer, readers, now, last, prior, probe, list, iter>>

\* line 106: roomsMu.Lock(), entry
CreateLock(p) ==
    /\ pc[p] = "c_lock"
    /\ LockEnter(p)
    /\ pc' = [pc EXCEPT ![p] = "c_wait"]
    /\ UNCHANGED <<rooms, now, req, room, resp, last, prior, probe, list, iter>>

\* line 106: roomsMu.Lock() returns
CreateLocked(p) ==
    /\ pc[p] = "c_wait"
    /\ LockReady(p)
    /\ pc' = [pc EXCEPT ![p] = "c_insert"]
    /\ UNCHANGED <<rooms, now, req, room, resp, last, prior, probe, list, iter>>

\* line 107: rooms[id] = room
CreateInsert(p) ==
    /\ pc[p] = "c_insert"
    /\ rooms' = MapInsert(rooms, room[p].room_id, room[p])
    /\ last' = [k \in DOMAIN last \cup {room[p].room_id} |->
                    IF k = room[p].room_id THEN p ELSE last[k]]
    /\ pc' = [pc EXCEPT ![p] = "c_unlock"]
    /\ UNCHANGED <<writer, readers, now, req, room, resp, prior, probe, list, iter>>

\* line 108: roomsMu.Unlock()
CreateUnlock(p) ==
    /\ pc[p] = "c_unlock"
    /\ Unlock(p)
    /\ pc' = [pc EXCEPT ![p] = "c_respond"]
    /\ UNCHANGED <<rooms, now, req, room, resp, last, prior, probe, list, iter>>

\* lines 110-111: the room goes out as JSON
CreateRespond(p) ==
    /\ pc[p] = "c_respond"
    /\ resp' = [resp EXCEPT ![p] = JSONResponse(room[p])]
    /\ pc' = [pc EXCEPT ![p] = "done"]
    /\ UNCHANGED <<rooms, writer, readers, now, req, room, last, prior, probe, list, iter>>

----------------------------------------------------------------------------
(* destroyRoomHandler, lines 115-135 *)

\* a destroy handler that ignores the decoder's error and goes on with the
\* zero DestroyRoomRequest
DestroyRequestDecodeUnchecked(p, method, valid, room_id) ==
    /\ pc[p] = "idle"
    /\ req' = [req EXCEPT ![p] =
          [kind |-> "destroy", method |-> method,
           valid |-> method = MethodPost /\ valid,
           key |-> IF method = MethodPost /\ valid THEN room_id ELSE ""]]
    /\ IF method # MethodPost
       THEN /\ resp' = [resp EXCEPT ![p] = HttpError("method not allowed", StatusMethodNotAllowed)]
            /\ pc' = [pc EXCEPT ![p] = "done"]
       ELSE /\ pc' = [pc EXCEPT ![p] = "d_lock"]
            /\ UNCHANGED resp
    /\ UNCHANGED <<rooms, writer, readers, now, room, last, prior, probe, list, iter>>

\* lines 116-124: method check and decode
DestroyRequest(p, method, valid, room_id) ==
    /\ pc[p] = "idle"
    /\ req' = [req EXCEPT ![p] =
          [kind |-> "destroy", method |-> method,
           valid |-> method = MethodPost /\ valid,
           key |-> IF method = MethodPost /\ valid THEN room_id ELSE ""]]
    /\ IF method # MethodPost
       THEN /\ resp' = [resp EXCEPT ![p] = HttpError("method not allowed", StatusMethodNotAllowed)]
            /\ pc' = [pc EXCEPT ![p] = "done"]
       ELSE IF ~valid
       THEN /\ resp' = [resp EXCEPT ![p] = HttpError("invalid request", StatusBadRequest)]
            /\ pc' = [pc EXCEPT ![p] = "done"]
       ELSE /\ pc' = [pc EXCEPT ![p] = "d_lock"]
            /\ UNCHANGED resp
    /\ UNCHANGED <<rooms, writer, readers, now, room, last, prior, probe, list, iter>>

\* line 126: roomsMu.Lock(), entry
DestroyLock(p) ==
    /\ pc[p] = "d_lock"
    /\ LockEnter(p)
    /\ pc' = [pc EXCEPT ![p] = "d_wait"]
    /\ UNCHANGED <<rooms, now, req, room, resp, last, prior, probe, list, iter>>

\* line 126: roomsMu.Lock() returns
DestroyLocked(p) ==
    /\ pc[p] = "d_wait"
    /\ LockReady(p)
    /\ pc' = [pc EXCEPT ![p] = "d_check"]
    /\ UNCHANGED <<rooms, now, req, room, resp, last, prior, probe, list, iter>>

\* a destroy handler with no deferred Unlock, whose not-found return leaves
\* with the lock held
DestroyCheckNoUnlock(p) ==
    /\ pc[p] = "d_check"
    /\ IF ~MapHas(rooms, req[p].key)
       THEN /\ resp' = [resp EXCEPT ![p] = HttpError("room not found", StatusNotFound)]
            /\ pc' = [pc EXCEPT ![p] = "done"]
       ELSE /\ pc' = [pc EXCEPT ![p] = "d_delete"]
            /\ UNCHANGED resp
    /\ UNCHANGED <<rooms, writer, readers, now, req, room, last, prior, probe, list, iter>>

\* lines 128-131: the lookup; not found answers 404 and returns
DestroyCheck(p) ==
    /\ pc[p] = "d_check"
    /\ IF ~MapHas(rooms, req[p].key)
       THEN /\ resp' = [resp EXCEPT ![p] = HttpError("room not found", StatusNotFound)]
            /\ pc' = [pc EXCEPT ![p] = "d_unlock"]
       ELSE /\ pc' = [pc EXCEPT ![p] = "d_delete"]
            /\ UNCHANGED resp
    /\ UNCHANGED <<rooms, writer, readers, now, req, room, last, prior, probe, list, iter>>

\* lines 132-134: delete(rooms, req.RoomID) and the acknowledgement
DestroyDelete(p) ==
    /\ pc[p] = "d_delete"
    /\ rooms' = MapDelete(rooms, req[p].key)
    /\ last' = [k \in DOMAIN last \ {req[p].key} |-> last[k]]
    /\ resp' = [resp EXCEPT ![p] = JSONResponse([result |-> "ok"])]
    /\ pc' = [pc EXCEPT ![p] = "d_unlock"]
    /\ UNCHANGED <<writer, readers, now, req, room, prior, probe, list, iter>>

\* line 127: defer roomsMu.Unlock(), run as the handler returns
DestroyUnlock(p) ==
    /\ pc[p] = "d_unlock"
    /\ Unlock(p)
    /\ pc' = [pc EXCEPT ![p] = "done"]
    /\ UNCHANGED <<rooms, now, req, room, resp, last, prior, probe, list, iter>>

----------------------------------------------------------------------------
(* listRoomsHandler, lines 138-159 *)

\* a less function that sorts by CreateTime ascending
LessAscending(a, b) == a.create_time < b.create_time
\* line 154: the less function, list[i].CreateTime > list[j].CreateTime
Less(a, b) == a.create_time > b.create_time

\* sort.Slice on a slice of fewer than 7 elements is an insertion sort:
\* x moves left past every element it is less than
RECURSIVE InsertSorted(_, _)
InsertSorted(s, x) ==
    IF s = <<>> \/ ~Less(x, s[Len(s)])
    THEN Append(s, x)
    ELSE Append(InsertSorted(SubSeq(s, 1, Len(s) - 1), x), s[Len(s)])

RECURSIVE SortSlice(_)
SortSlice(s) ==
    IF s = <<>> THEN s
    ELSE InsertSorted(SortSlice(SubSeq(s, 1, Len(s) - 1)), s[Len(s)])

\* make([]Room, len(rooms)): a slice that starts with len(rooms) zero rooms
MakeListLen(n) == [i \in 1..n |-> ZeroRoom]
\* line 145: make([]Room, 0, len(rooms)), an empty slice
MakeList(n) == <<>>

\* an append after which every element aliases the loop variable: each
\* holds the room the range visited last
ListAppendAliased(s, v) == [i \in 1..Len(s) + 1 |-> v]
\* line 149: list = append(list, v)
ListAppend(s, v) == Append(s, v)

\* the create handlers whose response is out
Answered ==
    {q \in Handlers : pc[q] = "done" /\ req[q].kind = "create"
                      /\ resp[q].status = StatusOK}

\* a list handler with no method check
ListRequestAnyMethod(p, method) ==
    /\ pc[p] = "idle"
    /\ req' = [req EXCEPT ![p] = [kind |-> "list", method |-> method,
                                  valid |-> TRUE, key |-> ""]]
    /\ prior' = [prior EXCEPT ![p] = Answered]
    /\ pc' = [pc EXCEPT ![p] = "l_rlock"]
    /\ UNCHANGED <<rooms, writer, readers, now, room, resp, last, probe, list, iter>>

\* lines 139-142: method check
ListRequest(p, method) ==
    /\ pc[p] = "idle"
    /\ req' = [req EXCEPT ![p] = [kind |-> "list", method |-> method,
                                  valid |-> TRUE, key |-> ""]]
    /\ IF method # MethodGet
       THEN /\ resp' = [resp EXCEPT ![p] = HttpError("method not allowed", StatusMethodNotAllowed)]
            /\ pc' = [pc EXCEPT ![p] = "done"]
            /\ UNCHANGED prior
       ELSE /\ prior' = [prior EXCEPT ![p] = Answered]
            /\ pc' = [pc EXCEPT ![p] = "l_rlock"]
            /\ UNCHANGED resp
    /\ UNCHANGED <<rooms, writer, readers, now, room, last, probe, list, iter>>

\* lines 143-145: roomsMu.RLock(), then the empty slice
ListRLock(p) ==
    /\ pc[p] = "l_rlock"
    /\ RLock(p)
    /\ list' = [list EXCEPT ![p] = MakeList(Cardinality(DOMAIN rooms))]
    /\ pc' = [pc EXCEPT ![p] = "l_read"]
    /\ UNCHANGED <<rooms, now, req, room, resp, last, prior, probe, iter>>

\* lines 147-150: one turn of for _, v := range rooms; the runtime picks a
\* key the loop has not visited
ListRange(p) ==
    /\ pc[p] = "l_read"
    /\ \E k \in DOMAIN rooms \ iter[p] :
          /\ list' = [list EXCEPT ![p] = ListAppend(list[p], rooms[k])]
          /\ iter' = [iter EXCEPT ![p] = iter[p] \cup {k}]
    /\ UNCHANGED <<rooms, writer, readers, now, pc, req, room, resp, last, prior, probe>>

\* lines 153-158: the range is over; sort, write the array as JSON
ListSort(p) ==
    /\ pc[p] = "l_read"
    /\ DOMAIN rooms \ iter[p] = {}
    /\ resp' = [resp EXCEPT ![p] = JSONResponse(SortSlice(list[p]))]
    /\ list' = [list EXCEPT ![p] = <<>>]
    /\ iter' = [iter EXCEPT ![p] = {}]
    /\ pc' = [pc EXCEPT ![p] = "l_runlock"]
    /\ UNCHANGED <<rooms, writer, readers, now, req, room, last, prior, probe>>

\* line 144: defer roomsMu.RUnlock(), run as the handler returns
ListRUnlock(p) ==
    /\ pc[p] = "l_runlock"
    /\ RUnlock(p)
    /\ pc' = [pc EXCEPT ![p] = "done"]
    /\ UNCHANGED <<rooms, now, req, room, resp, last, prior, probe, list, iter>>

----------------------------------------------------------------------------
(* The environment *)

\* the handler has returned and its goroutine serves the next request
Return(p) ==
    /\ pc[p] = "done"
    /\ pc' = [pc EXCEPT ![p] = "idle"]
    /\ req' = [req EXCEPT ![p] = NoReq]
    /\ room' = [room EXCEPT ![p] = ZeroRoom]
    /\ resp' = [resp EXCEPT ![p] = NoResp]
    /\ last' = [id \in DOMAIN last |-> IF last[id] = p THEN NoHandler ELSE last[id]]
    /\ prior' = [q \in Handlers |-> IF q = p THEN {} ELSE prior[q] \ {p}]
    /\ UNCHANGED <<rooms, writer, readers, now, probe, list, iter>>

\* a second passes on the wall clock
Tick ==
    /\ now < MaxTime
    /\ now' = now + 1
    /\ UNCHANGED <<rooms, writer, readers, pc, req, room, resp, last, prior, probe, list, iter>>

----------------------------------------------------------------------------
(* The server: no room, the lock free, no request in progress *)

Init ==
    /\ rooms = <<>>
    /\ writer = NoHandler
    /\ readers = {}
    /\ now = 0
    /\ pc = [p \in Handlers |-> "idle"]
    /\ req = [p \in Handlers |-> NoReq]
    /\ room = [p \in Handlers |-> ZeroRoom]
    /\ resp = [p \in Handlers |-> NoResp]
    /\ last = <<>>
    /\ prior = [p \in Handlers |-> {}]
    /\ probe = NoProbe
    /\ list = [p \in Handlers |-> <<>>]
    /\ iter = [p \in Handlers |-> {}]

Next ==
    \/ \E p \in Handlers, m \in Methods, v \in BOOLEAN, b \in CreateBodies, d \in Draws :
          CreateRequest(p, m, v, b.userid, b.room_type, d)
    \/ \E p \in Handlers : CreateLock(p)
    \/ \E p \in Handlers : CreateLocked(p)
    \/ \E p \in Handlers : CreateInsert(p)
    \/ \E p \in Handlers : CreateUnlock(p)
    \/ \E p \in Handlers : CreateRespond(p)
    \/ \E p \in Handlers, m \in Methods, v \in BOOLEAN, id \in DestroyIDs :
          DestroyRequest(p, m, v, id)
    \/ \E p \in Handlers : DestroyLock(p)
    \/ \E p \in Handlers : DestroyLocked(p)
    \/ \E p \in Handlers : DestroyCheck(p)
    \/ \E p \in Handlers : DestroyDelete(p)
    \/ \E p \in Handlers : DestroyUnlock(p)
    \/ \E p \in Handlers, m \in Methods : ListRequest(p, m)
    \/ \E p \in Handlers : ListRLock(p)
    \/ \E p \in Handlers : ListRange(p)
    \/ \E p \in Handlers : ListSort(p)
    \/ \E p \in Handlers : ListRUnlock(p)
    \/ \E p \in Handlers : Return(p)
    \/ Tick

Spec == Init /\ [][Next]_vars

----------------------------------------------------------------------------
(* The server with no destroy request *)

NextNoDestroy ==
    \/ \E p \in Handlers, m \in Methods, v \in BOOLEAN, b \in CreateBodies, d \in Draws :
          CreateRequest(p, m, v, b.userid, b.room_type, d)
    \/ \E p \in Handlers : CreateLock(p)
    \/ \E p \in Handlers : CreateLocked(p)
    \/ \E p \in Handlers : CreateInsert(p)
    \/ \E p \in Handlers : CreateUnlock(p)
    \/ \E p \in Handlers : CreateRespond(p)
    \/ \E p \in Handlers, m \in Methods : ListRequest(p, m)
    \/ \E p \in Handlers : ListRLock(p)
    \/ \E p \in Handlers : ListRange(p)
    \/ \E p \in Handlers : ListSort(p)
    \/ \E p \in Handlers : ListRUnlock(p)
    \/ \E p \in Handlers : Return(p)
    \/ Tick

SpecNoDestroy == Init /\ [][NextNoDestroy]_vars

----------------------------------------------------------------------------
(* List requests on a store of up to three rooms made at any seconds *)

ListUserIDs == {"5", "7", "9"}

\* the stores that creates of these owners at the seconds 0..MaxCreateTime leave
ListStores ==
    UNION {[{generateRoomID(u) : u \in owners} -> 0..MaxCreateTime] :
              owners \in SUBSET ListUserIDs}

InitList ==
    /\ \E times \in ListStores :
          rooms = [id \in DOMAIN times |->
                     Room(id, CHOOSE u \in ListUserIDs : generateRoomID(u) = id,
                          times[id], RoomLive, RTC_TRTC)]
    /\ last = [id \in DOMAIN rooms |-> NoHandler]
    /\ writer = NoHandler
    /\ readers = {}
    /\ now = MaxTime
    /\ pc = [p \in Handlers |-> "idle"]
    /\ req = [p \in Handlers |-> NoReq]
    /\ room = [p \in Handlers |-> ZeroRoom]
    /\ resp = [p \in Handlers |-> NoResp]
    /\ prior = [p \in Handlers |-> {}]
    /\ probe = NoProbe
    /\ list = [p \in Handlers |-> <<>>]
    /\ iter = [p \in Handlers |-> {}]

NextList ==
    \/ \E p \in Handlers, m \in Methods : ListRequest(p, m)
    \/ \E p \in Handlers : ListRLock(p)
    \/ \E p \in Handlers : ListRange(p)
    \/ \E p \in Handlers : ListSort(p)
    \/ \E p \in Handlers : ListRUnlock(p)
    \/ \E p \in Handlers : Return(p)

SpecList == InitList /\ [][NextList]_vars

----------------------------------------------------------------------------
(* One destroy request per handler, on a store that holds the rooms of     *)
(* both owners (and perhaps a third room), with no create                  *)

InitDestroy ==
    /\ \E times \in {t \in ListStores : RoomIDs \subseteq DOMAIN t} :
          rooms = [id \in DOMAIN times |->
                     Room(id, CHOOSE u \in ListUserIDs : generateRoomID(u) = id,
                          times[id], RoomLive, RTC_TRTC)]
    /\ last = [id \in DOMAIN rooms |-> NoHandler]
    /\ writer = NoHandler
    /\ readers = {}
    /\ now = MaxTime
    /\ pc = [p \in Handlers |-> "idle"]
    /\ req = [p \in Handlers |-> NoReq]
    /\ room = [p \in Handlers |-> ZeroRoom]
    /\ resp = [p \in Handlers |-> NoResp]
    /\ prior = [p \in Handlers |-> {}]
    /\ probe = NoProbe
    /\ list = [p \in Handlers |-> <<>>]
    /\ iter = [p \in Handlers |-> {}]

NextDestroy ==
    \/ \E p \in Handlers, m \in Methods, v \in BOOLEAN, id \in DestroyIDs :
          DestroyRequest(p, m, v, id)
    \/ \E p \in Handlers : DestroyLock(p)
    \/ \E p \in Handlers : DestroyLocked(p)
    \/ \E p \in Handlers : DestroyCheck(p)
    \/ \E p \in Handlers : DestroyDelete(p)
    \/ \E p \in Handlers : DestroyUnlock(p)

SpecDestroy == InitDestroy /\ [][NextDestroy]_vars

----------------------------------------------------------------------------
(* The server under fair scheduling, the wall clock standing still.  The   *)
(* Go scheduler runs every runnable goroutine again; a goroutine blocked   *)
(* in Lock or RLock is woken in turn (sync.Mutex hands the lock to a       *)
(* waiter that has waited long, and Unlock of the RWMutex lets the blocked *)
(* readers in before the next writer), so a lock that is free again and    *)
(* again is acquired in the end.                                           *)

\* handler p blocks here until roomsMu lets it in (lines 106, 126, 143)
Acquire(p) == CreateLock(p) \/ DestroyLock(p) \/ ListRLock(p)

\* every other step of handler p between its request and its return
Proceed(p) ==
    \/ CreateLocked(p) \/ CreateInsert(p) \/ CreateUnlock(p) \/ CreateRespond(p)
    \/ DestroyLocked(p) \/ DestroyCheck(p) \/ DestroyDelete(p) \/ DestroyUnlock(p)
    \/ ListRange(p) \/ ListSort(p) \/ ListRUnlock(p)

NextFair ==
    \/ \E p \in Handlers, m \in Methods, v \in BOOLEAN, b \in CreateBodies, d \in Draws :
          CreateRequest(p, m, v, b.userid, b.room_type, d)
    \/ \E p \in Handlers, m \in Methods, v \in BOOLEAN, id \in DestroyIDs :
          DestroyRequest(p, m, v, id)
    \/ \E p \in Handlers, m \in Methods : ListRequest(p, m)
    \/ \E p \in Handlers : Acquire(p)
    \/ \E p \in Handlers : Proceed(p)
    \/ \E p \in Handlers : Return(p)

Fairness ==
    \A p \in Handlers : WF_vars(Proceed(p)) /\ SF_vars(Acquire(p))

SpecFair == Init /\ [][NextFair]_vars /\ Fairness

----------------------------------------------------------------------------
(* One create request, its body and its draw taken from larger sets *)

\* the runes tried at position k of room_type: the two case forms of the
\* k-th rune of "audio" (three for i) and another rune; past its end, x and o
RunesAt(k) ==
    CASE k = 1 -> {"a", "A", "x"}
      [] k = 2 -> {"u", "U", "x"}
      [] k = 3 -> {"d", "D", "x"}
      [] k = 4 -> {"i", "I", "U+0130", "x"}
      [] k = 5 -> {"o", "O", "x"}
      [] OTHER -> {"o", "x"}

RECURSIVE StringsOfLen(_)
StringsOfLen(n) ==
    IF n = 0 THEN {<<>>}
    ELSE {Append(s, c) : s \in StringsOfLen(n - 1), c \in RunesAt(n)}

ProbeStrings ==
    UNION {StringsOfLen(n) : n \in 0..MaxStrLen}
    \cup {<<"f", "o", "o">>, <<"L", "i", "v", "e">>, <<"l", "i", "v", "e">>}

InitCreate ==
    /\ probe \in [userid : UserIDs, room_type : ProbeStrings, draw : Draws]
    /\ list = [p \in Handlers |-> <<>>]
    /\ iter = [p \in Handlers |-> {}]
    /\ rooms = <<>>
    /\ last = <<>>
    /\ writer = NoHandler
    /\ readers = {}
    /\ now = 0
    /\ pc = [p \in Handlers |-> "idle"]
    /\ req = [p \in Handlers |-> NoReq]
    /\ room = [p \in Handlers |-> ZeroRoom]
    /\ resp = [p \in Handlers |-> NoResp]
    /\ prior = [p \in Handlers |-> {}]

NextCreate ==
    \/ /\ req[1] = NoReq
       /\ CreateRequest(1, MethodPost, TRUE, probe.userid, probe.room_type, probe.draw)
    \/ CreateLock(1)
    \/ CreateLocked(1)
    \/ CreateInsert(1)
    \/ CreateUnlock(1)
    \/ CreateRespond(1)

SpecCreate == InitCreate /\ [][NextCreate]_vars

----------------------------------------------------------------------------
(* Vocabulary of the properties *)

Present(id) == id \in DOMAIN rooms

\* every room_id a request of the model can name
AllIDs == RoomIDs \cup DestroyIDs

\* handler p has answered a request of this kind with this status
Answer(p, kind, status) ==
    pc[p] = "done" /\ req[p].kind = kind /\ resp[p].status = status

\* the step in which create handler p stores its room (line 107)
InsertStep(p) == pc[p] = "c_insert" /\ pc'[p] = "c_unlock"
\* the step in which destroy handler p looks its room_id up (lines 128-131)
CheckStep(p) == pc[p] = "d_check" /\ pc'[p] \in {"d_delete", "d_unlock"}
\* the step in which destroy handler p deletes its room_id (lines 132-134)
DeleteStep(p) == pc[p] = "d_delete" /\ pc'[p] = "d_unlock"

\* handler p is between Lock's return and Unlock / between RLock and RUnlock
InWriteSection(p) ==
    pc[p] \in {"c_insert", "c_unlock", "d_check", "d_delete", "d_unlock"}
InReadSection(p) == pc[p] \in {"l_read", "l_runlock"}

\* the elements of a sequence
Elems(seq) == {seq[k] : k \in DOMAIN seq}

----------------------------------------------------------------------------
(* C1 as stated: while a room_id stays in the store, the rtc_type and the   *)
(* create_time stored under it never change, whatever request runs (a      *)
(* further create by the same owner included).                             *)
C1_NeverChange ==
    [][\A id \in AllIDs :
          Present(id) /\ Present(id)' =>
             /\ rooms'[id].rtc_type = rooms[id].rtc_type
             /\ rooms'[id].create_time = rooms[id].create_time]_vars

(* C1 amended: the rtc_type and create_time stored under a room_id change   *)
(* only in the insert of a create request for that room_id, which replaces *)
(* the whole entry by the room that create built; no destroy, no list and  *)
(* no create for another owner changes them.                               *)
C1_ChangeOnlyByOwnCreate ==
    [][\A id \in AllIDs :
          Present(id) /\ Present(id)' /\ rooms'[id] # rooms[id] =>
             \E p \in Handlers :
                /\ InsertStep(p)
                /\ room[p].room_id = id
                /\ room[p].owner_userid = rooms[id].owner_userid
                /\ rooms'[id] = room[p]]_vars

\* an entry has outlived another owner's later create and still is the room
\* its create answered with
C1_Witness ==
    \E p, q \in Handlers :
       /\ Answer(p, "create", StatusOK)
       /\ Present(resp[p].body.room_id)
       /\ rooms[resp[p].body.room_id] = resp[p].body
       /\ Answer(q, "create", StatusOK)
       /\ resp[q].body.room_id # resp[p].body.room_id
       /\ resp[q].body.create_time > resp[p].body.create_time
       /\ Present(resp[q].body.room_id)

----------------------------------------------------------------------------
(* C2 amended: the insert of a create puts its room in the store, and it   *)
(* runs before the create answers success; an entry leaves the store only  *)
(* in the delete of a destroy request for its room_id that answers ok; no  *)
(* other step of any create, destroy or list request removes an entry.     *)
C2_PresentUntilDestroyed ==
    [][/\ \A p \in Handlers :
             InsertStep(p) => Present(room[p].room_id)'
       /\ \A p \in Handlers :
             pc[p] # "done" /\ pc'[p] = "done" /\ req'[p].kind = "create"
             /\ resp'[p].status = StatusOK => pc[p] = "c_respond"
       /\ \A id \in AllIDs :
             Present(id) /\ ~Present(id)' =>
                \E p \in Handlers :
                   /\ DeleteStep(p)
                   /\ req[p].key = id
                   /\ resp'[p].status = StatusOK]_vars

(* C2 as stated: in the step in which a create answers success its room is *)
(* in the store, and only a destroy of its room_id removes an entry.       *)
C2_PresentFromSuccess ==
    [][/\ \A p \in Handlers :
             pc[p] # "done" /\ pc'[p] = "done" /\ req'[p].kind = "create"
             /\ resp'[p].status = StatusOK => Present(room[p].room_id)'
       /\ \A id \in AllIDs :
             Present(id) /\ ~Present(id)' =>
                \E p \in Handlers :
                   /\ DeleteStep(p)
                   /\ req[p].key = id
                   /\ resp'[p].status = StatusOK]_vars

\* a create has answered, the other handler has since served a destroy of
\* another room, and the created room is still there
C2_Witness ==
    \E p, q \in Handlers :
       /\ Answer(p, "create", StatusOK)
       /\ Present(resp[p].body.room_id)
       /\ Answer(q, "destroy", StatusOK)
       /\ req[q].key # resp[p].body.room_id
       /\ DOMAIN rooms = {resp[p].body.room_id}

----------------------------------------------------------------------------
(* C3: two creates with the same userid both answer with the room_id       *)
(* "rm_"+userid, each with the room built from its own request; after both *)
(* the store holds one entry under that id, the room of the create whose   *)
(* insert ran last.                                                        *)
C3_SameOwnerLastInsertWins ==
    \A p, q \in Handlers :
       p # q /\ Answer(p, "create", StatusOK) /\ Answer(q, "create", StatusOK)
       /\ req[p].key = req[q].key =>
          LET id == "rm_" \o req[p].key IN
          /\ resp[p].body.room_id = id
          /\ resp[q].body.room_id = id
          /\ resp[p].body = room[p] /\ room[p].owner_userid = req[p].key
          /\ resp[q].body = room[q] /\ room[q].owner_userid = req[q].key
          /\ Present(id)
          /\ last[id] \in {p, q}
          /\ rooms[id] = resp[last[id]].body
          /\ Cardinality({k \in DOMAIN rooms : rooms[k].owner_userid = req[p].key}) = 1

\* both have answered with different rooms, and the store holds the room of
\* the create that read the clock first: its insert ran last
C3_Witness ==
    \E p, q \in Handlers :
       /\ p # q
       /\ Answer(p, "create", StatusOK) /\ Answer(q, "create", StatusOK)
       /\ req[p].key = req[q].key
       /\ resp[p].body.create_time < resp[q].body.create_time
       /\ resp[p].body.rtc_type # resp[q].body.rtc_type
       /\ last[resp[p].body.room_id] = p
       /\ rooms[resp[p].body.room_id] = resp[p].body

----------------------------------------------------------------------------
(* C4: a list request that begins after a create has answered with room R, *)
(* with R's entry neither destroyed nor overwritten since, answers with a  *)
(* sequence that has an entry equal to R in all five fields.               *)
C4_CreateThenList ==
    \A q \in Handlers :
       req[q].kind = "list" /\ resp[q].status = StatusOK =>
          \A p \in prior[q] :
             Answer(p, "create", StatusOK)
             /\ MapHas(last, resp[p].body.room_id)
             /\ last[resp[p].body.room_id] = p =>
                \E k \in DOMAIN resp[q].body :
                   /\ resp[q].body[k].room_id = resp[p].body.room_id
                   /\ resp[q].body[k].owner_userid = resp[p].body.owner_userid
                   /\ resp[q].body[k].create_time = resp[p].body.create_time
                   /\ resp[q].body[k].room_type = resp[p].body.room_type
                   /\ resp[q].body[k].rtc_type = resp[p].body.rtc_type

\* a list that followed a create has answered with two rooms, the created
\* one (made after second 0) among them
C4_Witness ==
    \E p, q \in Handlers :
       /\ Answer(q, "list", StatusOK)
       /\ p \in prior[q]
       /\ Answer(p, "create", StatusOK)
       /\ MapHas(last, resp[p].body.room_id)
       /\ last[resp[p].body.room_id] = p
       /\ resp[p].body.create_time > 0
       /\ Len(resp[q].body) = 2
       /\ resp[p].body \in Elems(resp[q].body)

----------------------------------------------------------------------------
(* C5: a destroy whose room_id is absent answers Not Found and leaves the  *)
(* store as it was, each time it is made; a destroy whose room_id is       *)
(* present answers ok and leaves it absent; an absent room_id becomes      *)
(* present again only in the insert of a create for it.                    *)
C5_DestroyErrorOnRepeat ==
    [][/\ \A p \in Handlers :
             CheckStep(p) =>
                IF ~Present(req[p].key)
                THEN /\ resp'[p].status = StatusNotFound
                     /\ pc'[p] = "d_unlock"
                     /\ rooms' = rooms
                ELSE /\ pc'[p] = "d_delete"
                     /\ rooms' = rooms
       /\ \A p \in Handlers :
             DeleteStep(p) =>
                resp'[p].status = StatusOK /\ ~Present(req[p].key)'
       /\ \A id \in AllIDs :
             ~Present(id) /\ Present(id)' =>
                \E p \in Handlers : InsertStep(p) /\ room[p].room_id = id]_vars

\* one destroy of a room has answered ok and the next destroy of the same
\* room_id has answered Not Found
C5_Witness ==
    \E p, q \in Handlers :
       /\ Answer(p, "destroy", StatusOK)
       /\ Answer(q, "destroy", StatusNotFound)
       /\ req[p].key = req[q].key
       /\ ~Present(req[p].key)

----------------------------------------------------------------------------
(* C6: every list response is ordered by create_time descending: each      *)
(* entry's create_time is at least the next one's, so rooms made at three  *)
(* distinct seconds come out latest first, whatever order the map gave.    *)
C6_ListDescending ==
    \A p \in Handlers :
       req[p].kind = "list" /\ resp[p].status = StatusOK =>
          /\ \A k \in 1..(Len(resp[p].body) - 1) :
                resp[p].body[k].create_time >= resp[p].body[k + 1].create_time
          /\ (\A id1, id2 \in DOMAIN rooms :
                 id1 # id2 => rooms[id1].create_time # rooms[id2].create_time) =>
                \A j, k \in DOMAIN resp[p].body :
                   j < k => resp[p].body[j].create_time > resp[p].body[k].create_time

\* three rooms made at the seconds 0, 1 and 2 are listed in the order 2, 1, 0
C6_Witness ==
    \E p \in Handlers :
       /\ Answer(p, "list", StatusOK)
       /\ Len(resp[p].body) = 3
       /\ resp[p].body[1].create_time = 2
       /\ resp[p].body[2].create_time = 1
       /\ resp[p].body[3].create_time = 0

----------------------------------------------------------------------------
(* C7: at most one handler is inside a write section, and while one is, no *)
(* list handler is inside its read section.                                *)
C7_ReadersWriterExclusion ==
    /\ Cardinality({p \in Handlers : InWriteSection(p)}) <= 1
    /\ (\E p \in Handlers : InWriteSection(p)) =>
          ~ \E q \in Handlers : InReadSection(q)

\* two list handlers are inside their read sections at the same time
C7_Witness ==
    \E p, q \in Handlers : p # q /\ InReadSection(p) /\ InReadSection(q)

----------------------------------------------------------------------------
(* C8: with no destroy running, once two creates with different userids    *)
(* have both answered (neither overwritten by a later create of its own    *)
(* owner), both answered success, the store holds both room_ids and each   *)
(* entry equals the room answered to its own caller.                       *)
C8_DifferentOwnersIndependent ==
    \A p, q \in Handlers :
       p # q /\ Answer(p, "create", resp[p].status) /\ Answer(q, "create", resp[q].status)
       /\ req[p].valid /\ req[q].valid /\ req[p].key # req[q].key
       /\ last[room[p].room_id] = p /\ last[room[q].room_id] = q =>
          /\ resp[p].status = StatusOK /\ resp[q].status = StatusOK
          /\ resp[p].body.room_id # resp[q].body.room_id
          /\ Present(resp[p].body.room_id) /\ Present(resp[q].body.room_id)
          /\ rooms[resp[p].body.room_id] = resp[p].body
          /\ rooms[resp[q].body.room_id] = resp[q].body

\* both creates have answered, the one made at the later second included,
\* and the store holds exactly their two rooms
C8_Witness ==
    \E p, q \in Handlers :
       /\ Answer(p, "create", StatusOK) /\ Answer(q, "create", StatusOK)
       /\ req[p].key # req[q].key
       /\ resp[p].body.create_time < resp[q].body.create_time
       /\ DOMAIN rooms = {resp[p].body.room_id, resp[q].body.room_id}
       /\ rooms[resp[p].body.room_id] = resp[p].body
       /\ rooms[resp[q].body.room_id] = resp[q].body

----------------------------------------------------------------------------
(* C9: the draws 0 to 5 give TRTC and the draws 6 to 9 give Agora, six and *)
(* four of the ten; the rtc_type of a created room is the backend of its   *)
(* draw, whatever the userid, and so one of TRTC and Agora.                *)
C9_DrawDecidesRTC ==
    /\ Cardinality({d \in Draws : chooseRTC(d) = RTC_TRTC}) = 6
    /\ Cardinality({d \in Draws : chooseRTC(d) = RTC_AGORA}) = 4
    /\ req[1].kind = "create" =>
          /\ room[1].rtc_type = (IF probe.draw \in 0..5 THEN RTC_TRTC ELSE RTC_AGORA)
          /\ room[1].rtc_type \in {RTC_TRTC, RTC_AGORA}
    /\ \A id \in DOMAIN rooms :
          rooms[id].rtc_type = (IF probe.draw \in 0..5 THEN RTC_TRTC ELSE RTC_AGORA)

\* userid "5" with the draw 6: the room answered and stored is an Agora room
C9_Witness ==
    /\ probe.userid = "5" /\ probe.draw = 6
    /\ Answer(1, "create", StatusOK)
    /\ resp[1].body.rtc_type = RTC_AGORA
    /\ rooms["rm_5"].rtc_type = RTC_AGORA

----------------------------------------------------------------------------
\* the case forms of a lower-case letter of "audio": the runes that differ
\* from it at most in case
CaseForms(c) ==
    CASE c = "a" -> {"a", "A"}
      [] c = "u" -> {"u", "U"}
      [] c = "d" -> {"d", "D"}
      [] c = "i" -> {"i", "I", "U+0130"}
      [] c = "o" -> {"o", "O"}

IsAudioIgnoringCase(s) ==
    /\ Len(s) = Len(Str_audio)
    /\ \A k \in DOMAIN s : s[k] \in CaseForms(Str_audio[k])

(* C10: the created room's room_type is Audio exactly when the request's   *)
(* room_type is "audio" up to the case of its letters, and Live for every  *)
(* other string; the create answers success whatever the string.           *)
C10_RoomTypeNormalized ==
    /\ req[1].kind = "create" =>
          room[1].room_type =
             (IF IsAudioIgnoringCase(probe.room_type) THEN RoomAudio ELSE RoomLive)
    /\ pc[1] = "done" =>
          /\ resp[1].status = StatusOK
          /\ resp[1].body.room_type =
                (IF IsAudioIgnoringCase(probe.room_type) THEN RoomAudio ELSE RoomLive)

\* "AUDIO" has been answered with an Audio room
C10_Witness ==
    /\ probe.room_type = <<"A", "U", "D", "I", "O">>
    /\ Answer(1, "create", StatusOK)
    /\ resp[1].body.room_type = RoomAudio
    /\ rooms[resp[1].body.room_id].room_type = RoomAudio

----------------------------------------------------------------------------
\* the method a route accepts (lines 80, 116, 139)
RouteMethod(kind) == IF kind = "list" THEN MethodGet ELSE MethodPost

\* the step in which handler p takes a request up
RequestStep(p) == pc[p] = "idle" /\ pc'[p] # "idle"

(* C11: a request whose method is not the one its route accepts (POST for  *)
(* create and destroy, GET for list) is answered 405 in its first step:    *)
(* no body is decoded, the lock is neither taken nor waited for, the store *)
(* stays as it was and the handler is done; a request with the accepted    *)
(* method is never answered 405.                                           *)
C11_WrongMethodRefused ==
    [][\A p \in Handlers :
          /\ RequestStep(p) =>
                IF req'[p].method # RouteMethod(req'[p].kind)
                THEN /\ resp'[p] = HttpError("method not allowed", StatusMethodNotAllowed)
                     /\ pc'[p] = "done"
                     /\ req'[p].key = ""
                     /\ req'[p].kind # "list" => ~req'[p].valid
                     /\ room'[p] = ZeroRoom
                     /\ rooms' = rooms
                     /\ writer' = writer /\ readers' = readers
                ELSE resp'[p].status # StatusMethodNotAllowed
          /\ resp'[p].status = StatusMethodNotAllowed =>
                req'[p].method # RouteMethod(req'[p].kind)]_vars

\* with a room in the store and the lock free, the list route has refused a
\* POST and the create route a PUT
C11_Witness ==
    /\ rooms # <<>>
    /\ writer = NoHandler /\ readers = {}
    /\ \E p, q \in Handlers :
          /\ p # q
          /\ Answer(p, "list", StatusMethodNotAllowed)
          /\ req[p].method = MethodPost
          /\ Answer(q, "create", StatusMethodNotAllowed)
          /\ req[q].method = MethodPut

----------------------------------------------------------------------------
\* the store m with room r under key id, every other entry as it was
WithEntry(m, id, r) ==
    [k \in DOMAIN m \cup {id} |-> IF k = id THEN r ELSE m[k]]
\* the store m without key id, every other entry as it was
WithoutEntry(m, id) == [k \in DOMAIN m \ {id} |-> m[k]]

\* in this step handler p's response becomes an error
ErrorStep(p) == resp[p].status = 0 /\ resp'[p].status >= StatusBadRequest

(* C12: a create or destroy whose body does not decode is answered 400 in  *)
(* its first step with the store as it was and no room built. A step that  *)
(* writes an error response leaves the store as it was and belongs to a    *)
(* handler that has made no change (it is at its entry or at destroy's     *)
(* lookup). The store changes only in the insert of a create, which sets   *)
(* exactly its entry and then answers 200, or in the delete of a destroy,  *)
(* which removes exactly its key and answers 200.                          *)
C12_ErrorLeavesStore ==
    [][/\ \A p \in Handlers :
             RequestStep(p) /\ req'[p].kind \in {"create", "destroy"}
             /\ req'[p].method = MethodPost /\ ~req'[p].valid =>
                /\ resp'[p] = HttpError("invalid request", StatusBadRequest)
                /\ pc'[p] = "done"
                /\ room'[p] = ZeroRoom
                /\ rooms' = rooms
       /\ \A p \in Handlers :
             ErrorStep(p) => rooms' = rooms /\ pc[p] \in {"idle", "d_check"}
       /\ rooms' # rooms =>
             \E p \in Handlers :
                \/ /\ InsertStep(p)
                   /\ rooms' = WithEntry(rooms, room[p].room_id, room[p])
                \/ /\ DeleteStep(p)
                   /\ rooms' = WithoutEntry(rooms, req[p].key)
                   /\ resp'[p].status = StatusOK
       /\ \A p \in Handlers :
             pc[p] \in {"c_unlock", "c_respond"} /\ pc'[p] = "done" =>
                resp'[p].status = StatusOK]_vars

\* a create and a destroy with undecodable bodies have been answered 400
\* and the store still holds its two rooms
C12_Witness ==
    /\ Cardinality(DOMAIN rooms) = 2
    /\ \E p, q \in Handlers :
          /\ Answer(p, "create", StatusBadRequest)
          /\ Answer(q, "destroy", StatusBadRequest)
          /\ req[p].method = MethodPost /\ req[q].method = MethodPost

----------------------------------------------------------------------------
(* C13: a destroy whose lookup finds its room_id goes on to the delete;    *)
(* at the delete the room_id is still present; the delete answers 200 with *)
(* the body result "ok" as JSON, and the store after it is the store       *)
(* before it without that key, every other entry as it was.                *)
C13_DestroyRemovesExactlyOne ==
    [][\A p \in Handlers :
          /\ CheckStep(p) /\ Present(req[p].key) =>
                pc'[p] = "d_delete" /\ rooms' = rooms
          /\ pc'[p] = "d_delete" => req'[p].key \in DOMAIN rooms'
          /\ DeleteStep(p) =>
                /\ Present(req[p].key)
                /\ resp'[p] = [status |-> StatusOK, ctype |-> JSONType,
                               body |-> [result |-> "ok"]]
                /\ DOMAIN rooms' = DOMAIN rooms \ {req[p].key}
                /\ \A k \in DOMAIN rooms' : rooms'[k] = rooms[k]]_vars

\* a destroy has answered ok, its room_id is gone and the other room, made
\* after second 0, is still in the store
C13_Witness ==
    \E p \in Handlers :
       /\ Answer(p, "destroy", StatusOK)
       /\ resp[p].body.result = "ok"
       /\ ~Present(req[p].key)
       /\ \E k \in DOMAIN rooms : rooms[k].create_time > 0

----------------------------------------------------------------------------
\* handler p has written a response
Written(p) == resp[p].status # 0

(* C14 as stated: every response written, success or error, carries the    *)
(* JSON content type.                                                      *)
C14_AllResponsesJSON ==
    \A p \in Handlers : Written(p) => resp[p].ctype = JSONType

(* C14 amended: every response is a 200, 400, 404 or 405; the 200 of each  *)
(* of the three endpoints carries the content type application/json; the   *)
(* error responses (405, 400, 404) are written by http.Error and carry     *)
(* text/plain; charset=utf-8 with the message as body.                     *)
C14_SuccessJSONErrorPlain ==
    \A p \in Handlers :
       Written(p) =>
          /\ resp[p].status \in {StatusOK, StatusBadRequest, StatusNotFound,
                                 StatusMethodNotAllowed}
          /\ resp[p].status = StatusOK => resp[p].ctype = JSONType
          /\ resp[p].status # StatusOK =>
                /\ resp[p].ctype = TextType
                /\ resp[p].body \in {"method not allowed", "invalid request",
                                     "room not found"}

\* a destroy has answered Not Found as text/plain and a list has answered
\* 200 as JSON
C14_Witness ==
    \E p, q \in Handlers :
       /\ Answer(p, "destroy", StatusNotFound)
       /\ resp[p].ctype = TextType
       /\ Answer(q, "list", StatusOK)
       /\ resp[q].ctype = JSONType
       /\ resp[q].body # <<>>

----------------------------------------------------------------------------
\* handler p holds the write lock or a read lock
HoldsLock(p) == (writer = p /\ InWriteSection(p)) \/ p \in readers

(* C15: in no reachable state has a create, destroy or list handler        *)
(* written its response while it still holds the write lock or a read      *)
(* lock.                                                                   *)
C15_NoResponseUnderLock ==
    \A p \in Handlers : Written(p) => ~HoldsLock(p)

----------------------------------------------------------------------------
\* the sequence holds each room of store m once and nothing else
IsSnapshot(seq, m) ==
    /\ Len(seq) = Cardinality(DOMAIN m)
    /\ \A id \in DOMAIN m : \E k \in DOMAIN seq : seq[k] = m[id]
    /\ \A k \in DOMAIN seq : \E id \in DOMAIN m : seq[k] = m[id]

\* handler p, serving a list request, takes a step
ListHandlerStep(p) ==
    /\ req[p].kind = "list" \/ req'[p].kind = "list"
    /\ pc'[p] # pc[p] \/ list'[p] # list[p]

(* C16: from a list handler's RLock to its RUnlock no step of any handler  *)
(* changes the store; the array the list writes holds each room of the     *)
(* store of that stretch once and nothing else, whatever creates and       *)
(* destroys the other handler runs; and no step of a list handler changes  *)
(* the store.                                                              *)
C16_ListIsSnapshot ==
    [][\A p \in Handlers :
          /\ InReadSection(p) => rooms' = rooms
          /\ pc[p] = "l_read" /\ pc'[p] = "l_runlock" =>
                /\ resp'[p].status = StatusOK
                /\ IsSnapshot(resp'[p].body, rooms)
          /\ ListHandlerStep(p) => rooms' = rooms]_vars

\* a list has written the two rooms of the store and still holds its read
\* lock, while a destroy of one of them waits for the write lock
C16_Witness ==
    \E p, q \in Handlers :
       /\ pc[p] = "l_runlock"
       /\ Len(resp[p].body) = 2
       /\ resp[p].body[1].room_id # resp[p].body[2].room_id
       /\ pc[q] = "d_wait"
       /\ Present(req[q].key)

----------------------------------------------------------------------------
\* handler p serves a destroy whose body decoded to room_id k
Destroys(p, k) == req[p].kind = "destroy" /\ req[p].valid /\ req[p].key = k

(* C17: on a store that holds room_id k, with no create running, when two  *)
(* destroy requests for k have both written their response exactly one of  *)
(* them has answered ok and the other Not Found, and k is absent; between  *)
(* a destroy's lookup that found k and its delete no other destroy removes *)
(* k.                                                                      *)
C17_OneDestroyWins ==
    /\ \A p \in Handlers : pc[p] = "d_delete" => Present(req[p].key)
    /\ \A p, q \in Handlers : \A k \in RoomIDs :
          p # q /\ Destroys(p, k) /\ Destroys(q, k)
          /\ Written(p) /\ Written(q) =>
             /\ {resp[p].status, resp[q].status} = {StatusOK, StatusNotFound}
             /\ ~Present(k)

\* both destroys of rm_5 have answered, one ok and one Not Found, and the
\* room of the other owner is still in the store
C17_Witness ==
    \E p, q \in Handlers :
       /\ Destroys(p, "rm_5") /\ Destroys(q, "rm_5")
       /\ Answer(p, "destroy", StatusOK)
       /\ Answer(q, "destroy", StatusNotFound)
       /\ Present("rm_7")

----------------------------------------------------------------------------
(* C18: in every reachable state each entry of the store is kept under its *)
(* own room_id, that room_id is "rm_" followed by the owner_userid, the    *)
(* room_type is Live or Audio and the rtc_type is TRTC or Agora; so no two *)
(* entries have the same room_id or the same owner.                        *)
C18_StoreWellFormed ==
    /\ \A id \in DOMAIN rooms :
          /\ rooms[id].room_id = id
          /\ rooms[id].room_id = "rm_" \o rooms[id].owner_userid
          /\ rooms[id].room_type \in {"Live", "Audio"}
          /\ rooms[id].rtc_type \in {"TRTC", "Agora"}
    /\ \A j, k \in DOMAIN rooms :
          j # k => /\ rooms[j].room_id # rooms[k].room_id
                   /\ rooms[j].owner_userid # rooms[k].owner_userid

\* the store holds an Audio room and a Live room, one on Agora and one on
\* TRTC, of the two owners
C18_Witness ==
    /\ DOMAIN rooms = {"rm_5", "rm_7"}
    /\ rooms["rm_5"].room_type = "Audio" /\ rooms["rm_7"].room_type = "Live"
    /\ rooms["rm_5"].rtc_type # rooms["rm_7"].rtc_type
    /\ rooms["rm_5"].owner_userid = "5"

----------------------------------------------------------------------------
\* handler p is serving a request and has not returned its response
InFlight(p) == pc[p] \notin {"idle", "done"}

\* handler p has written its response and holds no lock
Completed(p) ==
    /\ pc[p] = "done"
    /\ Written(p)
    /\ writer # p /\ p \notin readers

(* C19: under fair scheduling every request a handler has taken up ends    *)
(* with its response written and its lock released, destroy's Not Found    *)
(* return included; in no reachable state are requests in flight with none *)
(* of them able to take a step; and when no request is in flight the lock  *)
(* has no writer and no reader.                                            *)
C19_EveryRequestCompletes ==
    /\ \A p \in Handlers : InFlight(p) ~> Completed(p)
    /\ [](\A p \in Handlers : pc[p] = "done" => Completed(p))
    /\ []((\E p \in Handlers : InFlight(p)) =>
             \E p \in Handlers : ENABLED (Acquire(p) \/ Proceed(p)))
    /\ []((\A p \in Handlers : ~InFlight(p)) =>
             writer = NoHandler /\ readers = {})

\* a destroy has returned Not Found and a list has returned the rooms of a
\* store that is not empty, and the lock has no writer and no reader
C19_Witness ==
    /\ writer = NoHandler /\ readers = {}
    /\ rooms # <<>>
    /\ \E p, q \in Handlers :
          /\ Answer(p, "destroy", StatusNotFound)
          /\ Answer(q, "list", StatusOK)

====
